---- MODULE Spec2Model ----
(***************************************************************************)
(* SmartEye remote surveillance scripts.                                   *)
(*                                                                         *)
(* Three independent programs and one pure function:                       *)
(*   - smart_eye.py: the Streamlit status dashboard (one render pass per   *)
(*     script run) and its anomaly evaluator infer_anomaly_from_status;    *)
(*   - capture_images.py: the snapshot poller;                             *)
(*   - face_emotion_detection.py: the live face/emotion overlay loop.      *)
(*                                                                         *)
(* Each program has its own specification (InferSpec, Spec, PollerSpec,    *)
(* FaceSpec) over its own variables; the other programs' variables stay    *)
(* at their initial values.                                                *)
(***************************************************************************)
EXTENDS Integers, Sequences, FiniteSets, TLC

VARIABLES
    \* --- infer_anomaly_from_status, driven on its own
    status_json,            \* the argument status_json
    distance_thresh_cm,     \* the argument distance_thresh_cm
    result,                 \* the returned (anomaly_bool, reason_str), or Pending
    \* --- smart_eye.py, the dashboard session
    anomaly_ack,            \* st.session_state["anomaly_ack"]
    last_sensor_snapshot,   \* st.session_state["last_sensor_snapshot"]
    threshold,              \* the sidebar widget DISTANCE_ANOMALY_THRESHOLD_CM
    click,                  \* what triggered the last script run
    ui,                     \* what the last script run rendered
    rerun_pending,          \* st.experimental_rerun() was raised by the last run
    acked_verdict,          \* the verdict shown when the operator acknowledged
    seen_error,             \* some earlier run of this session failed its status fetch
    anomaly_gone,           \* since the acknowledgment, some run evaluated "no anomaly"
    \* --- capture_images.py, the poller
    ppc,                    \* position in the while True loop
    now,                    \* the local wall clock datetime.now() reads (seconds)
    files,                  \* SAVE_DIR: set of [name, cycle] (cycle = whose bytes)
    plog,                   \* the last line printed by the loop
    cycles,                 \* completed requests.get calls
    saved,                  \* save_image calls that ran to completion
    image_responses,        \* responses with status 200 and an image content type
    failures,               \* cycles that ended in the except branch
    \* --- face_emotion_detection.py, the overlay
    fpc,                    \* position in the script
    cap_opened,             \* cap.isOpened()
    cap_released,           \* cap.release() was called
    windows_destroyed,      \* cv2.destroyAllWindows() was called
    window_shown,           \* cv2.imshow created the display window
    exit_path,              \* how the script left: "none", "not_opened", "no_frame", "quit"
    frames,                 \* frames read so far
    faces,                  \* faces detected in the current frame still to analyse
    labels,                 \* per-face outcome of the current frame, in order
    flog                    \* number of "Error analyzing face" lines printed

inferVars == <<status_json, distance_thresh_cm, result>>
dashVars == <<anomaly_ack, last_sensor_snapshot, threshold, click, ui, rerun_pending,
              acked_verdict, seen_error, anomaly_gone>>
pollVars == <<ppc, now, files, plog, cycles, saved, image_responses, failures>>
faceVars == <<fpc, cap_opened, cap_released, windows_destroyed, window_shown, exit_path,
              frames, faces, labels, flog>>
vars == <<inferVars, dashVars, pollVars, faceVars>>
notInfer == <<dashVars, pollVars, faceVars>>
notDash == <<inferVars, pollVars, faceVars>>
notPoll == <<inferVars, dashVars, faceVars>>
notFace == <<inferVars, dashVars, pollVars>>

(***************************************************************************)
(* JSON values as Python sees them after r.json().  Strings are sequences  *)
(* of one-character strings so that str.upper() and float() are computed.  *)
(* Numbers are exact decimals: sign, digits and a power-of-ten denominator.*)
(***************************************************************************)
Absent == [t |-> "absent", b |-> FALSE, neg |-> FALSE, num |-> 0, den |-> 1, s |-> <<>>]
Null   == [t |-> "null",   b |-> FALSE, neg |-> FALSE, num |-> 0, den |-> 1, s |-> <<>>]
List   == [t |-> "list",   b |-> FALSE, neg |-> FALSE, num |-> 0, den |-> 1, s |-> <<>>]
NaN    == [t |-> "nan",    b |-> FALSE, neg |-> FALSE, num |-> 0, den |-> 1, s |-> <<>>]
Inf    == [t |-> "inf",    b |-> FALSE, neg |-> FALSE, num |-> 0, den |-> 1, s |-> <<>>]
Bool(x) == [t |-> "bool",  b |-> x,     neg |-> FALSE, num |-> 0, den |-> 1, s |-> <<>>]
Str(x) == [t |-> "str",    b |-> FALSE, neg |-> FALSE, num |-> 0, den |-> 1, s |-> x]
\* a JSON number given in tenths: Tenths(199) is 19.9, Tenths(-10) is -1
Tenths(n) == [t |-> "num", b |-> FALSE, neg |-> n < 0, num |-> IF n < 0 THEN -n ELSE n,
              den |-> 10, s |-> <<>>]

LowerCase == <<"a","b","c","d","e","f","g","h","i","j","k","l","m",
               "n","o","p","q","r","s","t","u","v","w","x","y","z">>
UpperCase == <<"A","B","C","D","E","F","G","H","I","J","K","L","M",
               "N","O","P","Q","R","S","T","U","V","W","X","Y","Z">>

upper_char(c) ==
    IF \E i \in 1..Len(LowerCase) : LowerCase[i] = c
    THEN UpperCase[CHOOSE i \in 1..Len(LowerCase) : LowerCase[i] = c]
    ELSE c

\* str.upper()
upper(s) == [i \in 1..Len(s) |-> upper_char(s[i])]

HIGH == <<"H","I","G","H">>
IR_ACCEPTED == { <<"D","E","T","E","C","T","E","D">>, <<"D","E","T","E","C","T">>,
                 <<"L","O","W">>, <<"1">> }

Digits == <<"0","1","2","3","4","5","6","7","8","9">>
IsDigit(c) == \E i \in 1..10 : Digits[i] = c
DigitVal(c) == (CHOOSE i \in 1..10 : Digits[i] = c) - 1
AllDigits(s) == \A i \in 1..Len(s) : IsDigit(s[i])

RECURSIVE strip(_)
strip(s) ==
    IF s = <<>> THEN s
    ELSE IF Head(s) = " " THEN strip(Tail(s))
    ELSE IF s[Len(s)] = " " THEN strip(SubSeq(s, 1, Len(s) - 1))
    ELSE s

RECURSIVE DigitsValue(_)
DigitsValue(s) ==
    IF s = <<>> THEN 0 ELSE 10 * DigitsValue(SubSeq(s, 1, Len(s) - 1)) + DigitVal(s[Len(s)])

RECURSIVE Pow10(_)
Pow10(n) == IF n = 0 THEN 1 ELSE 10 * Pow10(n - 1)

\* The outcome of float(x): raised (TypeError / ValueError) or a float.
Raised == [ok |-> FALSE, k |-> "raised", neg |-> FALSE, num |-> 0, den |-> 1]
Finite(neg, num, den) == [ok |-> TRUE, k |-> "fin", neg |-> neg, num |-> num, den |-> den]
NonFinite(k, neg) == [ok |-> TRUE, k |-> k, neg |-> neg, num |-> 0, den |-> 1]

\* float(str): blanks stripped, an optional sign, then nan / inf / infinity in any
\* case, or digits with at most one point and at least one digit.
ParseUnsigned(neg, body) ==
    LET dots == {i \in 1..Len(body) : body[i] = "."}
        ip == IF dots = {} THEN body
              ELSE SubSeq(body, 1, (CHOOSE i \in dots : TRUE) - 1)
        fp == IF dots = {} THEN <<>>
              ELSE SubSeq(body, (CHOOSE i \in dots : TRUE) + 1, Len(body))
    IN  IF upper(body) = <<"N","A","N">> THEN NonFinite("nan", neg)
        ELSE IF upper(body) \in {<<"I","N","F">>, <<"I","N","F","I","N","I","T","Y">>}
             THEN NonFinite("inf", neg)
        ELSE IF Cardinality(dots) > 1 \/ ~AllDigits(ip) \/ ~AllDigits(fp)
                \/ Len(ip) + Len(fp) = 0
             THEN Raised
        ELSE Finite(neg, DigitsValue(ip \o fp), Pow10(Len(fp)))

float_str(s) ==
    LET t == strip(s)
    IN  IF t = <<>> THEN Raised
        ELSE IF Head(t) = "-" THEN ParseUnsigned(TRUE, Tail(t))
        ELSE IF Head(t) = "+" THEN ParseUnsigned(FALSE, Tail(t))
        ELSE ParseUnsigned(FALSE, t)

\* float(x) for a JSON value x
float(x) ==
    CASE x.t = "num"  -> Finite(x.neg, x.num, x.den)
      [] x.t = "bool" -> Finite(FALSE, IF x.b THEN 1 ELSE 0, 1)
      [] x.t = "nan"  -> NonFinite("nan", FALSE)
      [] x.t = "inf"  -> NonFinite("inf", x.neg)
      [] x.t = "str"  -> float_str(x.s)
      [] OTHER        -> Raised

\* dist >= 0 (-0.0 >= 0 is true; nan compares false)
GeZero(f) ==
    CASE f.k = "fin" -> ~f.neg \/ f.num = 0
      [] f.k = "inf" -> ~f.neg
      [] OTHER       -> FALSE

\* dist < float(distance_thresh_cm), the threshold an integer
LtThreshold_Le(f, thresh) ==
    CASE f.k = "fin" -> (f.neg /\ f.num > 0) \/ f.num <= thresh * f.den
      [] f.k = "inf" -> f.neg
      [] OTHER       -> FALSE

LtThreshold(f, thresh) ==
    CASE f.k = "fin" -> (f.neg /\ f.num > 0) \/ f.num < thresh * f.den
      [] f.k = "inf" -> f.neg
      [] OTHER       -> FALSE

\* status_json.get("distanceCm", -1)
get_distance(status) ==
    IF status.distanceCm.t = "absent" THEN Tenths(-10) ELSE status.distanceCm

\* reason_str: the text, and for the distance rule the two numbers formatted into it
NoReason == [text |-> "None", dist |-> <<>>, thresh |-> 0]
Verdict(a, text) == [anomaly |-> a, reason |-> [text |-> text, dist |-> <<>>, thresh |-> 0]]
NoAnomaly == [anomaly |-> FALSE, reason |-> NoReason]
MOTION == "Motion detected (PIR = HIGH)"
IR_REASON == "IR sensor detected object"
TOO_CLOSE == "Object too close"

\* the PIR test
PirTriggers(pir) == pir.t = "str" /\ upper(pir.s) = HIGH

\* the IR test
IrTriggers_NoLow(ir) == ir.t = "str" /\ upper(ir.s) \in IR_ACCEPTED \ {<<"L","O","W">>}

IrTriggers(ir) == ir.t = "str" /\ upper(ir.s) \in IR_ACCEPTED

\* the distance rule, its try/except included
DistanceRule(status, thresh) ==
    LET dist == float(get_distance(status))
    IN  IF dist.ok /\ GeZero(dist) /\ LtThreshold(dist, thresh)
        THEN [anomaly |-> TRUE,
              reason |-> [text |-> TOO_CLOSE, dist |-> <<dist.neg, dist.num, dist.den>>,
                         thresh |-> thresh]]
        ELSE NoAnomaly

infer_DistanceFirst(status, thresh) ==
    IF ~status.dict THEN NoAnomaly
    ELSE IF DistanceRule(status, thresh).anomaly THEN DistanceRule(status, thresh)
    ELSE IF PirTriggers(status.pirState) THEN Verdict(TRUE, MOTION)
    ELSE IF IrTriggers(status.irState) THEN Verdict(TRUE, IR_REASON)
    ELSE NoAnomaly

infer_anomaly_from_status(status, thresh) ==
    IF ~status.dict THEN NoAnomaly
    ELSE IF PirTriggers(status.pirState) THEN Verdict(TRUE, MOTION)
    ELSE IF IrTriggers(status.irState) THEN Verdict(TRUE, IR_REASON)
    ELSE DistanceRule(status, thresh)


(***************************************************************************)
(* infer_anomaly_from_status on its own: Init draws the arguments, the one *)
(* action applies the function.                                            *)
(***************************************************************************)
Pending == [anomaly |-> FALSE, reason |-> [text |-> "pending", dist |-> <<>>, thresh |-> 0]]

MinThreshold == 1
DefaultThreshold == 20
MaxThreshold == 1000
Thresholds == {MinThreshold, DefaultThreshold, MaxThreshold}

lower_of(c) ==
    IF \E j \in 1..Len(UpperCase) : UpperCase[j] = c
    THEN LowerCase[CHOOSE j \in 1..Len(UpperCase) : UpperCase[j] = c]
    ELSE c

\* every spelling of the upper-case word w in upper and lower case, letter by letter
CaseVariants(w) ==
    { [i \in 1..Len(w) |-> IF m[i] THEN w[i] ELSE lower_of(w[i])] :
        m \in [1..Len(w) -> BOOLEAN] }

PirStrings == CaseVariants(HIGH) \cup
              { <<"L","O","W">>, <<"l","o","w">>, <<>>, <<"H","I","G","H","E","R">>,
                <<"H","I","G">>, <<" ","H","I","G","H">>, <<"1">> }
PirSamples == {Absent, Null, Bool(TRUE), Tenths(10)} \cup {Str(x) : x \in PirStrings}

IrStrings == { <<"D","E","T","E","C","T","E","D">>, <<"d","e","t","e","c","t","e","d">>,
               <<"D","e","t","e","c","t">>, <<"D","E","T","E","C","T">>,
               <<"L","O","W">>, <<"l","o","W">>, <<"1">>,
               <<"C","L","E","A","R">>, <<"c","l","e","a","r">>, <<"0">>, <<>>,
               <<"D","E","T","E","C","T","S">>, <<"H","I","G","H">>, <<"1"," ">> }
IrSamples == {Absent, Null, Bool(TRUE), Tenths(10)} \cup {Str(x) : x \in IrStrings}

DistTenths == {-10, -1, 0, 5, 900} \cup
              {10 * t + d : t \in Thresholds, d \in {-1, 0, 1}}
DistStrings == { <<"1","5">>, <<"1","9",".","9">>, <<"1","9",".","9","5">>,
                 <<" ","7"," ">>, <<"+","2","0">>, <<"-","3">>, <<"-","0">>,
                 <<"2","0",".">>, <<".","5">>, <<"a","b","c">>, <<>>, <<"2"," ","0">>,
                 <<"1",".","2",".","3">>, <<".">>, <<"n","a","n">>, <<"-","I","n","f">>,
                 <<"i","n","f">>, <<"0","0","9","9","9">> }
DistSamples == {Absent, Null, List, Bool(TRUE), Bool(FALSE), NaN, Inf}
               \cup {Tenths(n) : n \in DistTenths} \cup {Str(x) : x \in DistStrings}

Status(pir, ir, dist) == [dict |-> TRUE, pirState |-> pir, irState |-> ir, distanceCm |-> dist]
NotADict == [dict |-> FALSE, pirState |-> Absent, irState |-> Absent, distanceCm |-> Absent]

InferInputs == {NotADict} \cup
               {Status(p, i, d) : p \in PirSamples, i \in IrSamples, d \in DistSamples}

InferInit ==
    /\ status_json \in InferInputs
    /\ distance_thresh_cm \in Thresholds
    /\ result = Pending

Evaluate ==
    /\ result = Pending
    /\ result' = infer_anomaly_from_status(status_json, distance_thresh_cm)
    /\ UNCHANGED <<notInfer, status_json, distance_thresh_cm>>

\* the function is not being driven
InferIdle ==
    /\ status_json = "idle"
    /\ distance_thresh_cm = DefaultThreshold
    /\ result = "idle"


(***************************************************************************)
(* smart_eye.py: the dashboard.  One action is one run of the script, from *)
(* its first line to st.stop() or to its last line, for one trigger (a     *)
(* button click, a sidebar change, a rerun).  st.button(label) is True     *)
(* only in the run its click triggered, and only when that run reaches the *)
(* button.  The status endpoint answers with a JSON object or the fetch    *)
(* fails.                                                                  *)
(***************************************************************************)
S_LOW == Str(<<"L","O","W">>)
S_CLEAR == Str(<<"C","L","E","A","R">>)
\* The /status answers the device gives in this model; the session state and the
\* rendered page hold a payload by its name.
DashPayloads == {"Quiet", "Motion", "IrOnly", "Close"}
Payload(id) ==
    CASE id = "Quiet"  -> Status(S_LOW, S_CLEAR, Tenths(900))
      [] id = "Motion" -> Status(Str(<<"h","i","g","h">>), S_CLEAR, Tenths(50))
      [] id = "IrOnly" -> Status(S_LOW, Str(<<"D","E","T","E","C","T","E","D">>), Absent)
      [] id = "Close"  -> Status(S_LOW, S_CLEAR, Str(<<"1","5">>))
      [] OTHER         -> NotADict
DashThresholds == {DefaultThreshold, MaxThreshold}

None == "None"                  \* session_state["last_sensor_snapshot"] = None
FetchFailed == "fetch_failed"   \* requests.get, raise_for_status or r.json() raised

CameraOutcomes == {"image", "fetch_warning", "decode_warning"}
QuickOutcomes == {"result", "warning"}

NothingRendered ==
    [ran |-> FALSE, ack_before |-> FALSE, last_before |-> None, error |-> FALSE,
     metrics |-> FALSE, camera |-> "not_fetched", evaluated |-> FALSE,
     verdict |-> NoAnomaly, banner |-> FALSE, ack_button |-> FALSE, notice |-> "none",
     diag |-> FALSE, quick |-> "none"]

\* fetch_sensor_json: (dict, None) or (None, str(e))
fetch_sensor_json(outcome) ==
    IF outcome = FetchFailed THEN [data |-> None, err |-> TRUE]
    ELSE [data |-> outcome, err |-> FALSE]

\* if st.button("Manual refresh"): st.session_state["anomaly_ack"] = False
ManualRefreshAck(c, ack) == IF c = "manual" THEN FALSE ELSE ack

\* if sensor_err: st.error(...); st.stop()  -- else the snapshot is stored
SnapshotAfterFetch_StoresFirst(last, fetched) == fetched.data

SnapshotAfterFetch(last, fetched) == IF fetched.err THEN last ELSE fetched.data

\* if anomaly_flag and not st.session_state["anomaly_ack"]
BannerShown_IgnoresAck(flag, ack) == flag

BannerShown(flag, ack) == flag /\ ~ack

\* inside the banner branch: if st.button("Acknowledge / Clear banner"): ack = True
AckAfterBanner_AutoClear(ack, flag, shown, clicked) ==
    IF shown /\ clicked THEN TRUE ELSE ack /\ flag

AckAfterBanner(ack, flag, shown, clicked) == IF shown /\ clicked THEN TRUE ELSE ack

\* anomaly_flag, anomaly_reason = infer_anomaly_from_status(sensor_data, threshold),
\* tabulated over the payloads and thresholds of the dashboard model
Verdicts ==
    { [payload |-> p, thresh |-> t, verdict |-> infer_anomaly_from_status(Payload(p), t)] :
        p \in DashPayloads \cup {None}, t \in DashThresholds }
VerdictFor(p, t) == (CHOOSE r \in Verdicts : r.payload = p /\ r.thresh = t).verdict

\* One run of the script, triggered by c, under sidebar threshold t.
RenderPass(c, t, outcome, cam, quick) ==
    LET ack1 == ManualRefreshAck(c, anomaly_ack)
        fetched == fetch_sensor_json(outcome)
        v == VerdictFor(fetched.data, t)
        shown == BannerShown(v.anomaly, ack1)
        ack2 == AckAfterBanner(ack1, v.anomaly, shown, c = "ack")
    IN  /\ UNCHANGED notDash
        /\ click' = c
        /\ threshold' = t
        /\ last_sensor_snapshot' = SnapshotAfterFetch(last_sensor_snapshot, fetched)
        /\ IF fetched.err
           THEN /\ anomaly_ack' = ack1
                /\ ui' = [NothingRendered EXCEPT !.ran = TRUE, !.error = TRUE,
                             !.ack_before = anomaly_ack,
                             !.last_before = last_sensor_snapshot]
                /\ rerun_pending' = FALSE
                /\ seen_error' = TRUE
                /\ acked_verdict' = IF ack1 THEN acked_verdict ELSE NoAnomaly
                /\ anomaly_gone' = (ack1 /\ anomaly_gone)
           ELSE /\ anomaly_ack' = ack2
                /\ ui' = [ran |-> TRUE, ack_before |-> anomaly_ack,
                          last_before |-> last_sensor_snapshot, error |-> FALSE,
                          metrics |-> TRUE, camera |-> cam, evaluated |-> TRUE,
                          verdict |-> v, banner |-> shown, ack_button |-> shown,
                          notice |-> IF shown THEN "none"
                                     ELSE IF ack1 THEN "success" ELSE "info",
                          diag |-> TRUE,
                          quick |-> IF c \in {"trigger", "stop"} THEN quick ELSE "none"]
                /\ rerun_pending' = (c = "refresh_now")
                /\ seen_error' = seen_error
                /\ acked_verdict' = IF ack2 /\ ~ack1 THEN v
                                    ELSE IF ack2 THEN acked_verdict ELSE NoAnomaly
                /\ anomaly_gone' = (ack1 /\ ack2 /\ (anomaly_gone \/ ~v.anomaly))

DashInit ==
    /\ anomaly_ack = FALSE
    /\ last_sensor_snapshot = None
    /\ threshold = DefaultThreshold
    /\ click = "none"
    /\ ui = NothingRendered
    /\ rerun_pending = FALSE
    /\ acked_verdict = NoAnomaly
    /\ seen_error = FALSE
    /\ anomaly_gone = FALSE

\* the session's first run
FirstLoad ==
    /\ ~ui.ran
    /\ \E o \in DashPayloads \cup {FetchFailed}, cam \in CameraOutcomes :
           RenderPass("load", threshold, o, cam, "none")

\* a sidebar widget changed (the threshold, or another one when t = threshold)
ChangeWidget ==
    /\ ui.ran /\ ~rerun_pending
    /\ \E t \in DashThresholds, o \in DashPayloads \cup {FetchFailed}, cam \in CameraOutcomes :
           RenderPass("widget", t, o, cam, "none")

ClickManualRefresh ==
    /\ ui.ran /\ ~rerun_pending
    /\ \E o \in DashPayloads \cup {FetchFailed}, cam \in CameraOutcomes :
           RenderPass("manual", threshold, o, cam, "none")

ClickAcknowledge ==
    /\ ui.ack_button /\ ~rerun_pending
    /\ \E o \in DashPayloads \cup {FetchFailed}, cam \in CameraOutcomes :
           RenderPass("ack", threshold, o, cam, "none")

ClickTrigger ==
    /\ ui.diag /\ ~rerun_pending
    /\ \E o \in DashPayloads \cup {FetchFailed}, cam \in CameraOutcomes, q \in QuickOutcomes :
           RenderPass("trigger", threshold, o, cam, q)

ClickStop ==
    /\ ui.diag /\ ~rerun_pending
    /\ \E o \in DashPayloads \cup {FetchFailed}, cam \in CameraOutcomes, q \in QuickOutcomes :
           RenderPass("stop", threshold, o, cam, q)

\* "Refresh sensor now": the run renders, then st.experimental_rerun()
ClickRefreshSensorNow ==
    /\ ui.diag /\ ~rerun_pending
    /\ \E o \in DashPayloads \cup {FetchFailed}, cam \in CameraOutcomes :
           RenderPass("refresh_now", threshold, o, cam, "none")

\* the run st.experimental_rerun() asked for
Rerun ==
    /\ rerun_pending
    /\ \E o \in DashPayloads \cup {FetchFailed}, cam \in CameraOutcomes :
           RenderPass("rerun", threshold, o, cam, "none")

DashNext ==
    \/ FirstLoad
    \/ ChangeWidget
    \/ ClickManualRefresh
    \/ ClickAcknowledge
    \/ ClickTrigger
    \/ ClickStop
    \/ ClickRefreshSensorNow
    \/ Rerun


(***************************************************************************)
(* capture_images.py: the poller.  One action is one pass through the body *)
(* of the try statement, or the sleep that follows it.  The local wall     *)
(* clock is the environment's: time.sleep lets at least INTERVAL_SEC pass, *)
(* and the clock can be set back (a time-zone change, a clock correction). *)
(***************************************************************************)
INTERVAL_SEC == 3
MaxCycles == 3
MaxClock == 9

\* datetime.now().strftime("%Y%m%d_%H%M%S"): the clock reading to the second
Timestamp(clock) == clock

\* open(path, "wb") then f.write(content): the file of that name holds content
WriteFile(dir, name, content) ==
    {f \in dir : f.name # name} \cup {[name |-> name, cycle |-> content]}

\* where the loop goes after the except branch has printed
AfterExcept_Propagates == "terminated"

AfterExcept == "sleep"

PollInit ==
    /\ ppc = "get"
    /\ now = 0
    /\ files = {}
    /\ plog = "Polling"
    /\ cycles = 0
    /\ saved = {}
    /\ image_responses = 0
    /\ failures = 0

\* status 200, an image content type, save_image runs to its last line
PollSaved ==
    /\ ppc = "get" /\ cycles < MaxCycles
    /\ cycles' = cycles + 1
    /\ image_responses' = image_responses + 1
    /\ files' = WriteFile(files, Timestamp(now), cycles')
    /\ saved' = saved \cup {cycles'}
    /\ plog' = "Saved"
    /\ ppc' = "sleep"
    /\ UNCHANGED <<notPoll, now, failures>>

\* status 200, an image content type, but open() or f.write() raises: the file is
\* not opened at all, or is left created/truncated with a partial body (cycle 0)
PollSaveFailed ==
    /\ ppc = "get" /\ cycles < MaxCycles
    /\ cycles' = cycles + 1
    /\ image_responses' = image_responses + 1
    /\ \/ files' = files
       \/ files' = WriteFile(files, Timestamp(now), 0)
    /\ plog' = "Error fetching"
    /\ failures' = failures + 1
    /\ ppc' = AfterExcept
    /\ UNCHANGED <<notPoll, now, saved>>

\* a response that is not 200 or not an image
PollUnexpected ==
    /\ ppc = "get" /\ cycles < MaxCycles
    /\ cycles' = cycles + 1
    /\ plog' = "Unexpected response"
    /\ ppc' = "sleep"
    /\ UNCHANGED <<notPoll, now, files, saved, image_responses, failures>>

\* requests.get raises (connection refused, timeout, ...)
PollFetchError ==
    /\ ppc = "get" /\ cycles < MaxCycles
    /\ cycles' = cycles + 1
    /\ plog' = "Error fetching"
    /\ failures' = failures + 1
    /\ ppc' = AfterExcept
    /\ UNCHANGED <<notPoll, now, files, saved, image_responses>>

\* time.sleep(INTERVAL_SEC): at least the interval passes
Sleep ==
    /\ ppc = "sleep"
    /\ \E d \in {INTERVAL_SEC, INTERVAL_SEC + 1} :
           /\ now + d <= MaxClock
           /\ now' = now + d
    /\ ppc' = "get"
    /\ UNCHANGED <<notPoll, files, plog, cycles, saved, image_responses, failures>>

\* the local clock is set back while the poller runs
ClockSetBack ==
    /\ ppc \in {"get", "sleep"}
    /\ \E c \in 0..(now - 1) : now' = c
    /\ UNCHANGED <<notPoll, ppc, files, plog, cycles, saved, image_responses, failures>>

PollNext ==
    \/ PollSaved
    \/ PollSaveFailed
    \/ PollUnexpected
    \/ PollFetchError
    \/ Sleep
    \/ ClockSetBack

(***************************************************************************)
(* face_emotion_detection.py: the overlay.  One action per statement group *)
(* of the script: open, read, per-face analysis, imshow, waitKey, release. *)
(***************************************************************************)
MaxFrames == 3
MaxFaces == 2

\* "Failed to capture frame"; break  -- control reaches the release lines
NoFrameTarget_Exit == "exited"

NoFrameTarget == "release"

FaceInit ==
    /\ fpc = "open"
    /\ cap_opened = FALSE
    /\ cap_released = FALSE
    /\ windows_destroyed = FALSE
    /\ window_shown = FALSE
    /\ exit_path = "none"
    /\ frames = 0
    /\ faces = 0
    /\ labels = <<>>
    /\ flog = 0

\* cap = cv2.VideoCapture(0); if not cap.isOpened(): print(...); exit()
OpenCapture ==
    /\ fpc = "open"
    /\ \E ok \in BOOLEAN :
           /\ cap_opened' = ok
           /\ fpc' = IF ok THEN "read" ELSE "exited"
           /\ exit_path' = IF ok THEN "none" ELSE "not_opened"
    /\ UNCHANGED <<notFace, cap_released, windows_destroyed, window_shown, frames, faces, labels, flog>>

\* ret, frame = cap.read() gave a frame; cvtColor; detectMultiScale
ReadFrame ==
    /\ fpc = "read" /\ frames < MaxFrames
    /\ frames' = frames + 1
    /\ \E n \in 0..MaxFaces :
           /\ faces' = n
           /\ fpc' = IF n = 0 THEN "show" ELSE "analyze"
    /\ labels' = <<>>
    /\ UNCHANGED <<notFace, cap_opened, cap_released, windows_destroyed, window_shown, exit_path, flog>>

\* ret is False: print("Failed to capture frame"); break
NoFrame ==
    /\ fpc = "read"
    /\ fpc' = NoFrameTarget
    /\ exit_path' = "no_frame"
    /\ UNCHANGED <<notFace, cap_opened, cap_released, windows_destroyed, window_shown, frames, faces,
                   labels, flog>>

\* one iteration of for (x, y, w, h) in faces: the analysis labels the face, returns
\* nothing, or raises (caught and printed)
AnalyzeFace ==
    /\ fpc = "analyze" /\ faces > 0
    /\ \E r \in {"label", "empty", "error"} :
           /\ labels' = Append(labels, r)
           /\ flog' = IF r = "error" THEN flog + 1 ELSE flog
    /\ faces' = faces - 1
    /\ fpc' = IF faces' = 0 THEN "show" ELSE "analyze"
    /\ UNCHANGED <<notFace, cap_opened, cap_released, windows_destroyed, window_shown, exit_path, frames>>

\* cv2.imshow(...)
ShowFrame ==
    /\ fpc = "show"
    /\ window_shown' = TRUE
    /\ fpc' = "waitkey"
    /\ UNCHANGED <<notFace, cap_opened, cap_released, windows_destroyed, exit_path, frames, faces,
                   labels, flog>>

\* if cv2.waitKey(1) & 0xFF == ord('q'): break
WaitKey ==
    /\ fpc = "waitkey"
    /\ \E q \in BOOLEAN :
           /\ fpc' = IF q THEN "release" ELSE "read"
           /\ exit_path' = IF q THEN "quit" ELSE exit_path
    /\ UNCHANGED <<notFace, cap_opened, cap_released, windows_destroyed, window_shown, frames, faces,
                   labels, flog>>

\* cap.release(); cv2.destroyAllWindows(); the script ends
Release ==
    /\ fpc = "release"
    /\ cap_released' = TRUE
    /\ windows_destroyed' = TRUE
    /\ fpc' = "exited"
    /\ UNCHANGED <<notFace, cap_opened, window_shown, exit_path, frames, faces, labels, flog>>

FaceNext ==
    \/ OpenCapture
    \/ ReadFrame
    \/ NoFrame
    \/ AnalyzeFace
    \/ ShowFrame
    \/ WaitKey
    \/ Release

(***************************************************************************)
(* The specifications.                                                     *)
(***************************************************************************)
\* the dashboard session is not open
DashIdle ==
    /\ anomaly_ack = FALSE
    /\ last_sensor_snapshot = None
    /\ threshold = DefaultThreshold
    /\ click = "none"
    /\ ui = "idle"
    /\ rerun_pending = FALSE
    /\ acked_verdict = "idle"
    /\ seen_error = FALSE
    /\ anomaly_gone = FALSE

InferNext == Evaluate
InferSpecInit == InferInit /\ DashIdle /\ PollInit /\ FaceInit
InferSpec == InferSpecInit /\ [][InferNext]_vars

Init == InferIdle /\ DashInit /\ PollInit /\ FaceInit
Next == DashNext
Spec == Init /\ [][Next]_vars

\* only the poller, or only the overlay, runs
IdleInit == InferIdle /\ DashIdle /\ PollInit /\ FaceInit
PollerSpec == IdleInit /\ [][PollNext]_vars

FaceSpec == IdleInit /\ [][FaceNext]_vars

(***************************************************************************)
(* Properties of infer_anomaly_from_status (specification InferSpec).      *)
(* The expected answers are stated without the function's own helpers:     *)
(* case-insensitive equality by enumeration of the spellings, the numeric  *)
(* value of a distance by a table of the sampled spellings.                *)
(***************************************************************************)
Evaluated == result # Pending /\ status_json.dict
\* s spells the upper-case word w, each letter in either case
SameIgnoringCase(s, w) ==
    /\ Len(s) = Len(w)
    /\ \A i \in 1..Len(w) : s[i] = w[i] \/ s[i] = lower_of(w[i])
PirIsHigh ==
    /\ status_json.pirState.t = "str"
    /\ SameIgnoringCase(status_json.pirState.s, <<"H","I","G","H">>)
IrIsAccepted ==
    /\ status_json.irState.t = "str"
    /\ \E w \in { <<"D","E","T","E","C","T","E","D">>, <<"D","E","T","E","C","T">>,
                  <<"L","O","W">>, <<"1">> } :
           SameIgnoringCase(status_json.irState.s, w)

\* the distance a distanceCm value denotes, in thousandths of a cm, when it is a
\* finite number
NoNumber == [isnum |-> FALSE, milli |-> 0]
Milli(m) == [isnum |-> TRUE, milli |-> m]
ExpectedDistance(x) ==
    CASE x.t = "absent" -> Milli(-1000)
      [] x.t = "num"  -> Milli((IF x.neg THEN -1 ELSE 1) * x.num * 100)
      [] x.t = "bool" -> Milli(IF x.b THEN 1000 ELSE 0)
      [] x.t = "str" /\ x.s = <<"1","5">> -> Milli(15000)
      [] x.t = "str" /\ x.s = <<"1","9",".","9">> -> Milli(19900)
      [] x.t = "str" /\ x.s = <<"1","9",".","9","5">> -> Milli(19950)
      [] x.t = "str" /\ x.s = <<" ","7"," ">> -> Milli(7000)
      [] x.t = "str" /\ x.s = <<"+","2","0">> -> Milli(20000)
      [] x.t = "str" /\ x.s = <<"-","3">> -> Milli(-3000)
      [] x.t = "str" /\ x.s = <<"-","0">> -> Milli(0)
      [] x.t = "str" /\ x.s = <<"2","0",".">> -> Milli(20000)
      [] x.t = "str" /\ x.s = <<".","5">> -> Milli(500)
      [] x.t = "str" /\ x.s = <<"0","0","9","9","9">> -> Milli(999000)
      [] OTHER -> NoNumber

\* C3: whenever pirState case-insensitively equals "HIGH", the verdict is anomaly =
\* true with the motion reason, whatever irState, distanceCm and the threshold are;
\* the IR and distance reasons are never given.
C3_MotionRuleWins ==
    (Evaluated /\ PirIsHigh) => result = Verdict(TRUE, MOTION)

C3_Witness ==
    /\ Evaluated
    /\ status_json.pirState = Str(<<"h","i","G","h">>)
    /\ status_json.irState = Str(<<"D","E","T","E","C","T","E","D">>)
    /\ status_json.distanceCm = Tenths(5)
    /\ result.anomaly /\ result.reason.text = MOTION

\* C4: whenever pirState is not "HIGH" (in any case, or absent, or not a string) and
\* irState case-insensitively is one of DETECTED, DETECT, LOW, 1, the verdict is
\* anomaly = true with the IR reason, whatever distanceCm and the threshold are.
C4_IrRule ==
    (Evaluated /\ ~PirIsHigh /\ IrIsAccepted) => result = Verdict(TRUE, IR_REASON)

C4_Witness ==
    /\ Evaluated
    /\ status_json.pirState = Str(<<"l","o","w">>)
    /\ status_json.irState = Str(<<"l","o","W">>)
    /\ status_json.distanceCm = Tenths(5)
    /\ result.anomaly /\ result.reason.text = IR_REASON

\* C5: when neither the PIR rule nor the IR rule triggers, the verdict is anomaly =
\* true with the "Object too close" reason exactly when distanceCm is a number d with
\* 0 <= d < threshold; otherwise it is anomaly = false with reason None.
C5_DistanceRule ==
    (Evaluated /\ ~PirIsHigh /\ ~IrIsAccepted) =>
        LET d == ExpectedDistance(status_json.distanceCm)
        IN  IF d.isnum /\ 0 <= d.milli /\ d.milli < 1000 * distance_thresh_cm
            THEN /\ result.anomaly
                 /\ result.reason.text = TOO_CLOSE
                 /\ result.reason.thresh = distance_thresh_cm
            ELSE result = NoAnomaly

C5_Witness ==
    /\ Evaluated /\ ~PirIsHigh /\ ~IrIsAccepted
    /\ status_json.distanceCm = Str(<<"1","9",".","9","5">>)
    /\ distance_thresh_cm = DefaultThreshold
    /\ result.anomaly /\ result.reason.text = TOO_CLOSE

(***************************************************************************)
(* Properties of the dashboard (specification Spec).                       *)
(***************************************************************************)
\* C1: in every run that starts with anomaly_ack = True and was not triggered by
\* "Manual refresh", the banner and its acknowledge button are not rendered, whatever
\* the status payload yields, and the flag is still True after the run.
C1_AcknowledgedBannerStaysHidden ==
    (ui.ran /\ ui.ack_before /\ click # "manual") =>
        (~ui.banner /\ ~ui.ack_button /\ anomaly_ack)

C1_Witness ==
    /\ ui.ack_before /\ click \notin {"manual", "ack"}
    /\ ui.evaluated /\ ui.verdict.anomaly /\ ui.verdict = acked_verdict
    /\ ~ui.banner /\ ui.notice = "success"

\* C2 (as claimed): in the run triggered by any operator refresh action ("Manual
\* refresh", or "Refresh sensor now" and the rerun it asks for), an anomaly in the
\* fetched payload is shown in the banner.
C2_EveryRefreshActionRedisplays ==
    (click \in {"manual", "refresh_now", "rerun"} /\ ui.evaluated /\ ui.verdict.anomaly)
        => ui.banner

\* C6: a run whose status fetch fails shows the error and stops: no camera fetch, no
\* evaluation, no banner, no acknowledge button, last_sensor_snapshot as before the
\* run; the session goes on (a further run can be triggered) and a run whose fetch
\* succeeds renders every section and stores the payload.
C6_FetchFailureHaltsThePassOnly ==
    /\ ui.error =>
          /\ ~ui.metrics /\ ui.camera = "not_fetched" /\ ~ui.evaluated
          /\ ~ui.banner /\ ~ui.ack_button /\ ui.notice = "none" /\ ~ui.diag
          /\ last_sensor_snapshot = ui.last_before
          /\ ENABLED ClickManualRefresh
    /\ (ui.ran /\ ~ui.error) =>
          /\ ui.metrics /\ ui.camera \in CameraOutcomes /\ ui.evaluated /\ ui.diag
          /\ ui.banner \/ ui.notice \in {"success", "info"}
          /\ last_sensor_snapshot \in DashPayloads

C6_Witness ==
    /\ ui.error /\ ui.last_before \in DashPayloads /\ last_sensor_snapshot = ui.last_before
    /\ click = "ack" /\ ~anomaly_ack

\* C10: a run changes anomaly_ack only when "Manual refresh" was clicked (to False)
\* or "Acknowledge / Clear banner" was clicked (to True); any other run leaves it as
\* it was.  So when the flag is True and a run reports an anomaly other than the
\* acknowledged one, the flag stays True and the banner is not rendered.
C10_AckChangesOnlyByItsTwoButtons ==
    /\ (ui.ran /\ anomaly_ack # ui.ack_before) =>
           \/ click = "manual" /\ ~anomaly_ack
           \/ click = "ack" /\ anomaly_ack
    /\ (ui.ran /\ click = "manual") => ~anomaly_ack
    /\ (ui.ack_before /\ click # "manual" /\ ui.evaluated /\ ui.verdict.anomaly
             /\ ui.verdict # acked_verdict) =>
           (anomaly_ack /\ ~ui.banner)

C10_Witness ==
    /\ ui.ack_before /\ anomaly_ack /\ anomaly_gone /\ click = "widget"
    /\ ui.evaluated /\ ui.verdict.anomaly /\ ui.verdict # acked_verdict
    /\ ~ui.banner

(***************************************************************************)
(* Properties of the poller (specification PollerSpec).                    *)
(***************************************************************************)
\* C7 (as claimed): every image cycle writes a file under a name no earlier cycle
\* used, so the file of every completed save_image is still in the directory.
C7_NoSavedImageIsOverwritten ==
    \A c \in saved : \E f \in files : f.cycle = c

\* C8: the loop never terminates on its own: after a saved image, an unexpected
\* response, a failed request or a failed save it is at the sleep or at the next
\* request, the outcome is on the log, and a save after earlier failures has its file.
C8_PollerNeverTerminates ==
    /\ ppc \in {"get", "sleep"}
    /\ cycles > 0 => plog \in {"Saved", "Unexpected response", "Error fetching"}
    /\ failures > 0 => cycles >= failures
    /\ plog = "Saved" => \E f \in files : f.cycle = cycles

C8_Witness ==
    /\ failures >= 2 /\ plog = "Saved" /\ ppc = "get"
    /\ \E f \in files : f.cycle = cycles

(***************************************************************************)
(* Properties of the overlay (specification FaceSpec).                     *)
(***************************************************************************)
\* C9 (as claimed): on every path by which the script ends, the capture device has
\* been released and the windows destroyed.
C9_ReleasedOnEveryExit ==
    fpc = "exited" => (cap_released /\ windows_destroyed)

\* C9 (amended): the frame loop is left only by the q key or by a failed frame read,
\* and on both paths release and destroyAllWindows run before the script ends; the
\* start-up exit (device not opened) ends the script before the loop, with no frame
\* read, no window shown, and neither call made.
C9_ReleasedOnLoopExit ==
    /\ fpc = "exited" => exit_path \in {"quit", "no_frame", "not_opened"}
    /\ fpc \in {"release", "exited"} /\ cap_opened => exit_path \in {"quit", "no_frame"}
    /\ (fpc = "exited" /\ exit_path \in {"quit", "no_frame"}) =>
           (cap_released /\ windows_destroyed)
    /\ exit_path = "not_opened" =>
           (fpc = "exited" /\ ~cap_opened /\ frames = 0 /\ ~window_shown
              /\ ~cap_released /\ ~windows_destroyed)

C9_Witness ==
    /\ fpc = "exited" /\ exit_path = "quit" /\ frames >= 2 /\ flog >= 1
    /\ cap_released /\ windows_destroyed

====
